---- MODULE Spec2Model ----
(***************************************************************************)
(* FacialPain.ipynb as a state machine.  The notebook is one linear run:   *)
(* every code cell is a step, executed top to bottom on the data frame df  *)
(* loaded from the CSV file; an exception raised by a step ends the run.   *)
(* Data frames are functions from index labels to rows, Series are         *)
(* functions from index labels to values, numpy arrays are sequences.      *)
(***************************************************************************)
EXTENDS Integers, Sequences, FiniteSets, TLC

\* ------------------------------------------------------------------ bounds
\* rows of a data set that is drawn freely from RowDomain
MaxFree == 1
\* free rows appended to the reference sample
MaxExtra == 1
\* base answers 0..MaxBase of the questionnaire of a row
MaxBase == 1
\* patient identifiers 1..MaxPat
MaxPat == 2

\* ------------------------------------------------------------ raw columns
\* a missing value of a numeric column (NaN) and of a text column
NaN == -1
None == "NaN"

\* the diagnosis re-mapping table
ICD_map ==
    ("ATYPICAL FACIAL PAIN" :> "AFP") @@
    ("ATYPICAL FACE PAIN" :> "AFP") @@
    ("CLONIC HEMIFACIAL SPASM" :> "HFS") @@
    ("MULTIPLE SCLEROSIS" :> "MS") @@
    ("TRIGEMINAL NEURALGIA" :> "TN") @@
    ("CHRONIC PAIN DUE TO TRAUMA" :> "Posttraumatic") @@
    ("POSTHERPETIC TRIGEMINAL NEURALGIA" :> "PHTN") @@
    ("OTH TRIGEMINAL AUTONOM CEPHALGIAS INTRACTABLE " :> "Other") @@
    ("OTH TRIGEMINAL AUTONOM CEPHALGIAS NOT INTRACT" :> "Other") @@
    ("OTHER TRIGEMINAL AUTONOM CEPHALGIAS " :> "Other") @@
    ("OTHER DISORDERS OF TRIGEMINAL NERVE" :> "Other") @@
    ("OTHER SPECIFIED TRIGEMINAL NERVE DISORDERS" :> "Other") @@
    ("OTHER FACIAL NERVE DISORDERS" :> "Other")

\* the screening-answer re-mapping table
CSRSS_map == ("No" :> 0) @@ ("Yes" :> 1)

\* values the D_ICD_DESC column takes: every key of the table, a description
\* the table does not list, and a missing description
RawDx == (DOMAIN ICD_map) \cup {"FACIAL PAIN NOS", None}

\* values the two C-SSRS columns take
RawAnswer == {"No", "Yes", "Unknown", None}

Genders == {"Female", "Male"}

\* the questionnaire columns of the three BPI-Facial domains, by position
amb_painintensity == 1..4
amb_interference == 5..11
amb_specific == 12..18
FACIAL_SCORE == 19
amb_any == amb_painintensity \cup amb_interference \cup amb_specific \cup {FACIAL_SCORE}

\* ------------------------------------------------------------- data sets
\* the answers of a row: column c holds (b + c) % 11, a score of 0..10, and
\* the columns of z are missing
Answers(b, z) == [c \in amb_any |-> IF c \in z THEN NaN ELSE (b + c) % 11]

Row(p, g, dx, th, bh, b, z) ==
    [PAT_ID |-> p, D_GENDER_DESC |-> g, D_ICD_DESC |-> dx,
     SUICIDAL_THOUGHTS |-> th, SUICIDAL_BEHAVIOR |-> bh, amb |-> Answers(b, z)]

\* the first and the last column of every domain, and the total score
EdgeColumns == {1, 4, 5, 11, 12, 18, FACIAL_SCORE}

\* the sets of missing columns of a row: none, one column, every column
NullSets == {{}} \cup {{c} : c \in EdgeColumns} \cup {amb_any}

PlainDx == "TRIGEMINAL NEURALGIA"

\* the rows a data set is drawn from: the plain row changed in one respect
RowDomain ==
    {Row(p, "Female", PlainDx, "No", "No", 0, {}) : p \in 1..MaxPat}
    \cup {Row(1, g, PlainDx, "No", "No", 0, {}) : g \in Genders}
    \cup {Row(1, "Female", dx, "No", "No", 0, {}) : dx \in RawDx}
    \cup {Row(1, "Female", PlainDx, a[1], a[2], 0, {}) : a \in RawAnswer \X RawAnswer}
    \cup {Row(1, "Female", PlainDx, "No", "No", b, {}) : b \in 0..MaxBase}
    \cup {Row(1, "Female", PlainDx, "No", "No", 0, z) : z \in NullSets}

\* the rows that follow the reference sample: a row with no column, one item
\* of a domain, the total score or every column missing, with and without a
\* positive answer, and a row with an unlisted diagnosis
ExtraNullSets == {{}, {1}, {11}, {FACIAL_SCORE}, amb_any}
ExtraDomain ==
    {Row(1, "Female", PlainDx, "No", "No", 0, z) : z \in ExtraNullSets}
    \cup {Row(1, "Male", PlainDx, "Yes", None, 0, z) : z \in {{}, {FACIAL_SCORE}}}
    \cup {Row(1, "Female", "FACIAL PAIN NOS", "No", "No", 0, {})}

\* the reference sample: CoreSize complete rows in which every sex and every
\* diagnosis group has patients with and without a positive screening answer
CoreSize == 20
CorePositive == 9
\* row j of a sample whose first rows, positive of them, have a positive answer
SampleRow(j, positive) ==
    Row(((j - 1) % MaxPat) + 1,
        IF j % 2 = 1 THEN "Female" ELSE "Male",
        IF j % 4 = 0 THEN "ATYPICAL FACIAL PAIN" ELSE PlainDx,
        IF j <= positive /\ j % 4 # 0 THEN "Yes" ELSE "No",
        IF j <= positive /\ j % 4 = 0 THEN "Yes" ELSE "No",
        (j \div 2) % (MaxBase + 1), {})
CoreRow(j) == SampleRow(j, CorePositive)
Core == [j \in 1..CoreSize |-> CoreRow(j)]

\* a small sample: SmallSize complete rows, the first SmallPositive of them
\* with a positive screening answer
SmallSize == 9
SmallPositive == 5
Small == [j \in 1..SmallSize |-> SampleRow(j, SmallPositive)]

SeqsUpTo(S, n) == UNION {[1..m -> S] : m \in 1..n}

\* a sample in which most women and few men have a positive answer
Skewed ==
    <<Row(1, "Female", PlainDx, "Yes", "No", 0, {}),
      Row(2, "Female", "ATYPICAL FACIAL PAIN", "Yes", "No", 0, {}),
      Row(1, "Female", PlainDx, "No", "No", 0, {}),
      Row(2, "Male", PlainDx, "Yes", "No", 0, {}),
      Row(1, "Male", "ATYPICAL FACIAL PAIN", "No", "No", 0, {}),
      Row(2, "Male", PlainDx, "No", "No", 0, {})>>

\* the data sets read_csv can return: a few arbitrary rows, the small and the
\* skewed sample, or the reference sample followed by arbitrary rows.
\* read_csv labels the rows 1..n.
Datasets ==
    SeqsUpTo(RowDomain, MaxFree)
    \cup {Small, Skewed}
    \cup {Core} \cup {Core \o e : e \in SeqsUpTo(ExtraDomain, MaxExtra)}

\* --------------------------------------------------------------- the state
VARIABLES
    pc,                     \* the next step of the run
    error,                  \* the exception that ended the run, or "none"
    df,                     \* the data frame of all rows
    n_entries, n_patients, n_female, dx_counts,
    female_proportion,      \* the printed proportion of females, <<num, den>>
    csrss_props,            \* the proportion of each screening flag
    csrss_counts_gender,    \* the 2 x 2 table of the sex test
    csrss_counts_tn,        \* the 2 x 2 table of the diagnosis test
    amb_df,                 \* the BPI-Facial columns of the complete rows
    amb_df_missing,         \* the index labels of the incomplete rows
    amb_total_scores,
    amb_painintensity_df, amb_interference_df, amb_specific_df,
    is_sui, is_tn,          \* numpy arrays of CSRSS_Either and ICD_TN
    bpi_groups,             \* the two subgroups of each domain score
    bpi_tests,              \* the Levene and Welch results of each domain
    ml_df,                  \* the data frame of the machine-learning cells
    estimators,             \* the fitted state of every estimator object
    preprocessor,           \* the object the name preprocessor is bound to
    X_train, X_test,        \* the index labels of the two splits
    y_proba, y_pred_default, y_pred_alt,
    scores, scores_alt,     \* the folds of the two cross-validations
    X_transformed,          \* the matrix of the PCA and of the sweep
    k, silhouette_scores    \* the loop of the silhouette sweep

descVars == <<n_entries, n_patients, n_female, dx_counts, female_proportion, csrss_props,
              csrss_counts_gender, csrss_counts_tn>>
bpiVars == <<amb_df, amb_df_missing, amb_total_scores, amb_painintensity_df,
             amb_interference_df, amb_specific_df, is_sui, is_tn, bpi_groups,
             bpi_tests>>
clsVars == <<X_train, X_test, y_proba, y_pred_default, y_pred_alt, scores, scores_alt>>
cluVars == <<X_transformed, k, silhouette_scores>>
objVars == <<estimators, preprocessor>>
vars == <<pc, error, df, descVars, bpiVars, ml_df, objVars, clsVars, cluVars>>

Index(frame) == DOMAIN frame

\* the steps of the run, in the order of the cells
Steps == <<"clean", "either", "demographics", "csrss", "chi2", "bpi", "dropna",
           "split", "ml_df", "train_test_split", "fit", "predict", "cross_val",
           "alt_threshold", "cross_val_alt", "cluster", "transform", "sweep", "done">>
Pos(step) == CHOOSE q \in 1..Len(Steps) : Steps[q] = step

\* the step was executed to its end
After(step) == Pos(pc) > Pos(step)

\* a step runs while no exception was raised
At(step) == pc = step /\ error = "none"

\* an exception ends the run in the step that raised it
Raise(e) == error' = e /\ UNCHANGED pc

\* the elements of a set of index labels in ascending order
RECURSIVE SortedSeq(_)
SortedSeq(S) ==
    IF S = {} THEN <<>>
    ELSE LET m == CHOOSE x \in S : \A y \in S : x <= y
         IN  <<m>> \o SortedSeq(S \ {m})

\* Series.values: the values of a Series in the order of its index
Values(series) ==
    LET ix == SortedSeq(Index(series))
    IN  [q \in 1..Len(ix) |-> series[ix[q]]]

\* ------------------------------------------------------ 1.1 data cleaning
\* Series.map(table): the table's value, NaN for a value it does not list
MapText(table, x) == IF x \in DOMAIN table THEN table[x] ELSE None
MapFlag(table, x) == IF x \in DOMAIN table THEN table[x] ELSE NaN

\* a flag that also counts the postherpetic form as trigeminal neuralgia
IsTNFamily(x) == IF x \in {"TN", "PHTN"} THEN 1 ELSE 0

\* lambda x: 1 if x == 'TN' else 0
IsTN(x) == IF x = "TN" THEN 1 ELSE 0

\* the four columns the cell adds to a row
CleanRow(r) ==
    LET clean == MapText(ICD_map, r.D_ICD_DESC)
    IN  r @@ [ICD_Clean |-> clean, ICD_TN |-> IsTN(clean),
              CSRSS_Thoughts |-> MapFlag(CSRSS_map, r.SUICIDAL_THOUGHTS),
              CSRSS_Behaviors |-> MapFlag(CSRSS_map, r.SUICIDAL_BEHAVIOR)]

CleanData ==
    /\ At("clean")
    /\ df' = [i \in Index(df) |-> CleanRow(df[i])]
    /\ pc' = "either"
    /\ UNCHANGED <<error, descVars, bpiVars, ml_df, objVars, clsVars, cluVars>>

\* the sum of the two flag columns with skipna=False: NaN when a flag is NaN
SumNoSkip2(a, b) == IF a = NaN \/ b = NaN THEN NaN ELSE a + b

\* DataFrame.sum(axis=1, skipna=True) of the two flag columns of a row
SumSkipna2(a, b) == (IF a = NaN THEN 0 ELSE a) + (IF b = NaN THEN 0 ELSE b)

\* lambda x: 1 if x > 0 else 0
Positive(x) == IF x > 0 THEN 1 ELSE 0

Either(r) == Positive(SumSkipna2(r.CSRSS_Thoughts, r.CSRSS_Behaviors))

RestructureCSRSS ==
    /\ At("either")
    /\ df' = [i \in Index(df) |-> df[i] @@ [CSRSS_Either |-> Either(df[i])]]
    /\ pc' = "demographics"
    /\ UNCHANGED <<error, descVars, bpiVars, ml_df, objVars, clsVars, cluVars>>

\* ------------------------------------------------------- 2.1 demographics
\* Series.value_counts(): the count of every value that occurs, NaN left out
ValueCounts(frame, col) ==
    LET vals == {frame[i][col] : i \in Index(frame)} \ {None}
    IN  [v \in vals |-> Cardinality({i \in Index(frame) : frame[i][col] = v})]

\* the proportion in '# Females: %i (%.1f%%)': n_female/n_patients
FemaleProportion(females, patients) == <<females, patients>>

Demographics ==
    /\ At("demographics")
    /\ n_entries' = Cardinality(Index(df))
    /\ n_patients' = Cardinality({df[i].PAT_ID : i \in Index(df)})
    /\ n_female' = Cardinality({i \in Index(df) : df[i].D_GENDER_DESC = "Female"})
    /\ dx_counts' = ValueCounts(df, "ICD_Clean")
    /\ female_proportion' = FemaleProportion(n_female', n_patients')
    /\ pc' = "csrss"
    /\ UNCHANGED <<error, df, csrss_props, csrss_counts_gender, csrss_counts_tn,
                   bpiVars, ml_df, objVars, clsVars, cluVars>>

\* ---------------------------------------------------- 2.2 C-SSRS responses
\* Series.mean() of a flag column as <<sum, count>> of its values that are
\* not NaN
FlagMean(frame, col) ==
    <<Cardinality({i \in Index(frame) : frame[i][col] = 1}),
      Cardinality({i \in Index(frame) : frame[i][col] # NaN})>>

CsrssResponses ==
    /\ At("csrss")
    /\ csrss_props' = [Behaviors |-> FlagMean(df, "CSRSS_Behaviors"),
                       Thoughts |-> FlagMean(df, "CSRSS_Thoughts"),
                       Either |-> FlagMean(df, "CSRSS_Either")]
    /\ pc' = "chi2"
    /\ UNCHANGED <<error, df, n_entries, n_patients, n_female, dx_counts,
                   female_proportion, csrss_counts_gender, csrss_counts_tn, bpiVars,
                   ml_df, objVars, clsVars, cluVars>>

\* the rows of a group that have value v in CSRSS_Either
GroupCount(frame, by, key, v) ==
    Cardinality({i \in Index(frame) : frame[i][by] = key /\ frame[i].CSRSS_Either = v})

\* value_counts() of one group: the values that occur, the most frequent
\* first, the smaller value first when both occur equally often
CountsOfGroup(frame, by, key) ==
    LET c0 == GroupCount(frame, by, key, 0)
        c1 == GroupCount(frame, by, key, 1)
        ordered == IF c1 > c0 THEN <<c1, c0>> ELSE <<c0, c1>>
    IN  SelectSeq(ordered, LAMBDA c : c > 0)

\* df.groupby(by)['CSRSS_Either'].value_counts().values: the groups in the
\* order of their keys, each with the counts of its own values
GroupValueCounts(frame, by, keys) ==
    CountsOfGroup(frame, by, keys[1]) \o CountsOfGroup(frame, by, keys[2])

\* ndarray.reshape(2, 2)
CanReshape22(a) == Len(a) = 4
Reshape22(a) == <<<<a[1], a[2]>>, <<a[3], a[4]>>>>

\* the cell of the two chi-square tests
ChiSquare ==
    /\ At("chi2")
    /\ LET g == GroupValueCounts(df, "D_GENDER_DESC", <<"Female", "Male">>)
           t == GroupValueCounts(df, "ICD_TN", <<0, 1>>)
       IN  IF ~CanReshape22(g)
           THEN /\ Raise("ValueError")
                /\ UNCHANGED <<csrss_counts_gender, csrss_counts_tn>>
           ELSE IF ~CanReshape22(t)
           THEN /\ Raise("ValueError")
                /\ csrss_counts_gender' = Reshape22(g)
                /\ UNCHANGED csrss_counts_tn
           ELSE /\ csrss_counts_gender' = Reshape22(g)
                /\ csrss_counts_tn' = Reshape22(t)
                /\ pc' = "bpi"
                /\ UNCHANGED error
    /\ UNCHANGED <<df, n_entries, n_patients, n_female, dx_counts, female_proportion,
                   csrss_props, bpiVars, ml_df, objVars, clsVars, cluVars>>

\* -------------------------------------------------- 2.3 BPI-Facial responses
\* amb_df[amb_df.isnull().all(axis=1)].index
AmbAllMissing(frame) == {i \in Index(frame) : \A c \in amb_any : frame[i][c] = NaN}

\* amb_df[amb_df.isnull().any(axis=1)].index
AmbMissing(frame) == {i \in Index(frame) : \E c \in amb_any : frame[i][c] = NaN}

\* DataFrame.loc[labels]: the rows of these labels
Keep(frame, labels) == [i \in Index(frame) \cap labels |-> frame[i]]

\* DataFrame.drop(labels): the frame without the rows of these labels
Drop(frame, labels) == [i \in Index(frame) \ labels |-> frame[i]]

RECURSIVE SumCols(_, _)
SumCols(answers, cols) ==
    IF cols = {} THEN 0
    ELSE LET c == CHOOSE x \in cols : TRUE
         IN  (IF answers[c] = NaN THEN 0 ELSE answers[c]) + SumCols(answers, cols \ {c})

\* the columns of a row that are not NaN
Present(answers, cols) == {c \in cols : answers[c] # NaN}

\* a mean is the pair <<sum, count>>; the mean of no value is NaN
NaNMean == <<0, 0>>

\* DataFrame.sum(axis=1) of the columns cols of a row, read as a mean
SumAsMean(answers, cols) == <<SumCols(answers, cols), 1>>

\* DataFrame.mean(axis=1, skipna=True) of the columns cols of a row
MeanSkipna(answers, cols) ==
    IF Present(answers, cols) = {} THEN NaNMean
    ELSE <<SumCols(answers, cols), Cardinality(Present(answers, cols))>>

\* DataFrame.sum(axis=1, skipna=True) of the columns cols of a row
SumSkipna(answers, cols) == SumCols(answers, cols)

DomainMean(frame, cols) == [i \in Index(frame) |-> MeanSkipna(frame[i], cols)]

CohortFilter ==
    /\ At("bpi")
    /\ LET all == [i \in Index(df) |-> df[i].amb]
           missing == AmbMissing(all)
           kept == Drop(all, missing)
       IN  /\ amb_df_missing' = missing
           /\ amb_df' = kept
           /\ amb_total_scores' = [i \in Index(kept) |-> kept[i][FACIAL_SCORE]]
           /\ amb_painintensity_df' = DomainMean(kept, amb_painintensity)
           /\ amb_interference_df' = DomainMean(kept, amb_interference)
           /\ amb_specific_df' = DomainMean(kept, amb_specific)
           /\ is_sui' = Values([i \in Index(Drop(df, missing)) |-> df[i].CSRSS_Either])
           /\ is_tn' = Values([i \in Index(Drop(df, missing)) |-> df[i].ICD_TN])
    /\ pc' = "dropna"
    /\ UNCHANGED <<error, df, descVars, bpi_groups, bpi_tests, ml_df, objVars, clsVars,
                   cluVars>>

\* Series.dropna()
DropNa(series) == [i \in {j \in Index(series) : series[j] # NaNMean} |-> series[i]]

\* the cell that reports the mean and SD of each domain
ReportDomains ==
    /\ At("dropna")
    /\ amb_painintensity_df' = DropNa(amb_painintensity_df)
    /\ amb_interference_df' = DropNa(amb_interference_df)
    /\ amb_specific_df' = DropNa(amb_specific_df)
    /\ pc' = "split"
    /\ UNCHANGED <<error, df, descVars, amb_df, amb_df_missing, amb_total_scores,
                   is_sui, is_tn, bpi_groups, bpi_tests, ml_df, objVars, clsVars, cluVars>>

\* series[mask != v].values: the values at the positions where the mask is not v
MaskValuesNot(series, mask, v) ==
    LET vals == Values(series)
        RECURSIVE Pick(_)
        Pick(q) == IF q > Len(vals) THEN <<>>
                   ELSE (IF mask[q] # v THEN <<vals[q]>> ELSE <<>>) \o Pick(q + 1)
    IN  Pick(1)

\* series[mask == v].values: the values at the positions where the mask is v
MaskValues(series, mask, v) ==
    LET vals == Values(series)
        RECURSIVE Pick(_)
        Pick(q) == IF q > Len(vals) THEN <<>>
                   ELSE (IF mask[q] = v THEN <<vals[q]>> ELSE <<>>) \o Pick(q + 1)
    IN  Pick(1)

SplitGroups(series, mask) ==
    [sui |-> MaskValues(series, mask, 1), notsui |-> MaskValues(series, mask, 0)]

\* stats.levene(a, b): a statistic, NaN when a sample is empty; no exception
Levene(a, b) == IF Len(a) = 0 \/ Len(b) = 0 THEN "nan" ELSE "W"

\* stats.ttest_ind(a, b, equal_var=False): a statistic, NaN when a sample has
\* no variance estimate; no exception
TtestInd(a, b) == IF Len(a) < 2 \/ Len(b) < 2 THEN "nan" ELSE "t"

\* the degrees of freedom the cell prints with the t statistic
PrintedDof(a, b) == Len(a) + Len(b) - 2

\* the tests of the two subgroups of a domain
TestGroups(g) ==
    [levene |-> Levene(g.sui, g.notsui), t |-> TtestInd(g.sui, g.notsui),
     dof |-> PrintedDof(g.sui, g.notsui)]

\* the cell that splits the domain scores by CSRSS_Either and tests them; a
\* boolean mask of another length than the Series is an IndexError
SplitByCSRSS ==
    /\ At("split")
    /\ IF \E s \in {amb_painintensity_df, amb_interference_df, amb_specific_df} :
              Cardinality(Index(s)) # Len(is_sui)
       THEN Raise("IndexError") /\ UNCHANGED <<bpi_groups, bpi_tests>>
       ELSE /\ bpi_groups' = [painintensity |-> SplitGroups(amb_painintensity_df, is_sui),
                              interference |-> SplitGroups(amb_interference_df, is_sui),
                              specific |-> SplitGroups(amb_specific_df, is_sui)]
            /\ bpi_tests' = [d \in {"painintensity", "interference", "specific"} |->
                                 TestGroups(bpi_groups'[d])]
            /\ pc' = "ml_df"
            /\ UNCHANGED error
    /\ UNCHANGED <<df, descVars, amb_df, amb_df_missing, amb_total_scores,
                   amb_painintensity_df, amb_interference_df, amb_specific_df,
                   is_sui, is_tn, ml_df, objVars, clsVars, cluVars>>

\* ------------------------------------------------ 3. machine-learning frame
MlRow(r) ==
    r @@ [Pain_Intensity |-> SumSkipna(r.amb, amb_painintensity),
          Interference_General |-> SumSkipna(r.amb, amb_interference),
          Interference_Face |-> SumSkipna(r.amb, amb_specific)]

MlFrame ==
    /\ At("ml_df")
    /\ ml_df' = [i \in Index(Drop(df, amb_df_missing)) |-> MlRow(df[i])]
    /\ pc' = "train_test_split"
    /\ UNCHANGED <<error, df, descVars, bpiVars, objVars, clsVars, cluVars>>

\* ------------------------------------------- 3.1 logistic regression
\* the estimator objects the cells construct
CT1 == "ColumnTransformer_1"
SMOTE1 == "SMOTE_1"
LOGREG1 == "LogisticRegression_1"
CT2 == "ColumnTransformer_2"
KMEANS1 == "KMeans_1"
PCA1 == "PCA_1"

\* the steps of the two pipelines
pipeline == [preprocess |-> CT1, smote |-> SMOTE1, logreg |-> LOGREG1]
cluster_pipeline == [columntransformer |-> CT2, kmeans |-> KMEANS1]

\* an estimator that was constructed and not fitted
Unfitted == [n_fit |-> 0, rows |-> {}, synthetic |-> 0, params |-> <<>>]

\* estimator.fit: the object is fitted in place on these rows
FitObject(obj, rows, synthetic, params) ==
    [n_fit |-> obj.n_fit + 1, rows |-> rows, synthetic |-> synthetic, params |-> params]

\* test_size of train_test_split, in percent, and cv of cross_val_score
TestPercent == 30
CvFolds == 5
\* k_neighbors of SMOTE()
KNeighbors == 5
\* n_clusters of the reported clustering
NClusters == 2
\* the decision thresholds, in percent
DefaultThreshold == 50
AltThreshold == 30

\* probabilities, in percent, a fitted model gives an example
ProbLevels == {20, 30, 60}
\* a fitted logistic model, by the probability it gives the examples of each sex
Models == [Genders -> ProbLevels]

\* splits drawn by the seeded generator: each class gives the test split a
\* window of its rows that starts 0..MaxShift rows into the class
MaxShift == 1

Classes == {0, 1}
Target(frame) == [i \in Index(frame) |-> frame[i].CSRSS_Either]
ClassRows(y, rows, c) == {i \in rows : y[i] = c}
ClassCount(y, rows, c) == Cardinality(ClassRows(y, rows, c))
PresentClasses(y, rows) == {c \in Classes : ClassRows(y, rows, c) # {}}

Ceil(a, b) == (a + b - 1) \div b

\* _approximate_mode: the rows of each class among n_draws rows drawn in
\* proportion to the class sizes; the row left after rounding down goes to
\* the class with the greatest remainder, to either one when they are equal
ApproximateMode(y, rows, n_draws) ==
    LET total == Cardinality(rows)
        floored == [c \in Classes |-> (ClassCount(y, rows, c) * n_draws) \div total]
        rem == [c \in Classes |-> (ClassCount(y, rows, c) * n_draws) % total]
        need == n_draws - (floored[0] + floored[1])
        top == {c \in Classes : \A d \in Classes : rem[d] <= rem[c]}
    IN  IF need = 0 THEN {floored}
        ELSE {[floored EXCEPT ![c] = @ + 1] : c \in top}

\* a window of n rows of a class, starting r rows into the class, wrapping
Window(members, r, n) ==
    LET ix == SortedSeq(members)
    IN  {ix[((r + j) % Len(ix)) + 1] : j \in 0..(n - 1)}

\* train_test_split(X, y, stratify=y, test_size=0.3, random_state=0) fails when
\* a class has a single row or a split has fewer rows than there are classes
SplitFails(y, rows) ==
    LET n == Cardinality(rows)
        n_test == Ceil(TestPercent * n, 100)
    IN  \/ \E c \in PresentClasses(y, rows) : ClassCount(y, rows, c) < 2
        \/ n_test < Cardinality(PresentClasses(y, rows))
        \/ n - n_test < Cardinality(PresentClasses(y, rows))

\* the test splits the call can return
TestSplits(y, rows) ==
    LET n == Cardinality(rows)
        n_test == Ceil(TestPercent * n, 100)
    IN  {Window(ClassRows(y, rows, 0), r, ClassCount(y, rows, 0) - n_i[0])
           \cup Window(ClassRows(y, rows, 1), r, ClassCount(y, rows, 1) - n_i[1]) :
         n_i \in ApproximateMode(y, rows, n - n_test), r \in 0..MaxShift}

\* the cell constructs the pipeline and splits the rows of ml_df
TrainTestSplit ==
    /\ At("train_test_split")
    /\ estimators' = (CT1 :> Unfitted) @@ (SMOTE1 :> Unfitted) @@ (LOGREG1 :> Unfitted)
    /\ preprocessor' = CT1
    /\ IF SplitFails(Target(ml_df), Index(ml_df))
       THEN Raise("ValueError") /\ UNCHANGED <<X_train, X_test>>
       ELSE /\ \E test \in TestSplits(Target(ml_df), Index(ml_df)) :
                  /\ X_test' = test
                  /\ X_train' = Index(ml_df) \ test
            /\ pc' = "fit"
            /\ UNCHANGED error
    /\ UNCHANGED <<df, descVars, bpiVars, ml_df, y_proba, y_pred_default, y_pred_alt,
                   scores, scores_alt, cluVars>>

\* SMOTE.fit_resample: every class but the largest is filled up to the size
\* of the largest with synthetic examples
Majority(y, rows) ==
    IF ClassCount(y, rows, 0) >= ClassCount(y, rows, 1)
    THEN ClassCount(y, rows, 0) ELSE ClassCount(y, rows, 1)
Minority(y, rows) ==
    IF ClassCount(y, rows, 0) >= ClassCount(y, rows, 1)
    THEN ClassCount(y, rows, 1) ELSE ClassCount(y, rows, 0)
Synthetic(y, rows) == Majority(y, rows) - Minority(y, rows)

\* fitting fails on rows of one class, and when the class to fill up has no
\* KNeighbors + 1 rows to interpolate between
FitFails(y, rows) ==
    \/ Cardinality(PresentClasses(y, rows)) < 2
    \/ Synthetic(y, rows) > 0 /\ Minority(y, rows) < KNeighbors + 1

\* Pipeline.fit(rows): every step is fitted on the rows it is given, the model
\* on the resampled rows
PipelineFit(objs, steps, y, rows, coef) ==
    [objs EXCEPT ![steps.preprocess] = FitObject(@, rows, 0, <<>>),
                 ![steps.smote] = FitObject(@, rows, 0, <<>>),
                 ![steps.logreg] = FitObject(@, rows, Synthetic(y, rows), coef)]

\* pipeline.fit(X, y): the pipeline fitted on every row of ml_df
FitAllRows == Index(ml_df)

\* the rows the notebook fits the pipeline on
FitRows == X_train

Fit ==
    /\ At("fit")
    /\ IF FitFails(Target(ml_df), FitRows)
       THEN Raise("ValueError") /\ UNCHANGED estimators
       ELSE /\ \E coef \in Models :
                  estimators' = PipelineFit(estimators, pipeline, Target(ml_df), FitRows, coef)
            /\ pc' = "predict"
            /\ UNCHANGED error
    /\ UNCHANGED <<df, descVars, bpiVars, ml_df, preprocessor, clsVars, cluVars>>

\* predict_proba(...)[:, 1] of a fitted model for a row
Proba(coef, r) == coef[r.D_GENDER_DESC]

\* predict: class 1 where the decision function is positive
PredictDefault(p) == IF p > DefaultThreshold THEN 1 ELSE 0

\* (y_proba >= 1 - threshold).astype(int)
PredictAltRaised(p) == IF p >= 100 - AltThreshold THEN 1 ELSE 0

\* (y_proba >= threshold).astype(int)
PredictAlt(p) == IF p >= AltThreshold THEN 1 ELSE 0

Predict ==
    /\ At("predict")
    /\ y_proba' = [i \in X_test |-> Proba(estimators[pipeline.logreg].params, ml_df[i])]
    /\ y_pred_default' =
           [i \in X_test |->
               PredictDefault(Proba(estimators[pipeline.logreg].params, ml_df[i]))]
    /\ pc' = "cross_val"
    /\ UNCHANGED <<error, df, descVars, bpiVars, ml_df, objVars, X_train, X_test,
                   y_pred_alt, scores, scores_alt, cluVars>>

\* StratifiedKFold(5): the classes are numbered in the order they first occur;
\* fold f takes of each class as many rows as positions f, f + 5, ... of the
\* sorted class numbers hold, the rows of a class in the order of the frame
FirstClass(y, rows) == y[SortedSeq(rows)[1]]
Allocation(f, lo, hi) == Cardinality({q \in lo..(hi - 1) : q % CvFolds = f})
RECURSIVE Cumulated(_, _, _)
Cumulated(f, lo, hi) ==
    IF f < 0 THEN 0 ELSE Allocation(f, lo, hi) + Cumulated(f - 1, lo, hi)

TestFold(y, rows, f) ==
    LET a == FirstClass(y, rows)
        ca == ClassCount(y, rows, a)
        n == Cardinality(rows)
        ixa == SortedSeq(ClassRows(y, rows, a))
        ixb == SortedSeq(rows \ ClassRows(y, rows, a))
    IN  {ixa[j] : j \in (Cumulated(f - 1, 0, ca) + 1)..Cumulated(f, 0, ca)}
        \cup {ixb[j] : j \in (Cumulated(f - 1, ca, n) + 1)..Cumulated(f, ca, n)}

\* the split object refuses fewer rows than folds, and classes that all have
\* fewer rows than folds
FoldsFail(y, rows) ==
    \/ Cardinality(rows) < CvFolds
    \/ \A c \in PresentClasses(y, rows) : ClassCount(y, rows, c) < CvFolds

\* one fold: a clone of the pipeline is fitted on the training rows of the
\* fold and scored on its test rows; a fit that fails scores NaN
Fold(y, rows, f) ==
    LET test == TestFold(y, rows, f)
        train == rows \ test
        failed == FitFails(y, train)
        clone == [o \in {CT1, SMOTE1, LOGREG1} |-> Unfitted]
    IN  [train |-> train, test |-> test,
         clone |-> IF failed THEN clone
                   ELSE PipelineFit(clone, pipeline, y, train, <<>>),
         scored |-> IF failed THEN {} ELSE test,
         score |-> IF failed \/ Cardinality(PresentClasses(y, test)) < 2
                   THEN "nan" ELSE "auc"]

CrossValScore(y, rows) == [f \in 1..CvFolds |-> Fold(y, rows, f - 1)]

\* cross_val_score raises when the folds cannot be made or every fit fails
CrossValFails(y, rows) ==
    \/ FoldsFail(y, rows)
    \/ \A f \in 1..CvFolds : CrossValScore(y, rows)[f].clone[LOGREG1].n_fit = 0

CrossVal ==
    /\ At("cross_val")
    /\ IF CrossValFails(Target(ml_df), Index(ml_df))
       THEN Raise("ValueError") /\ UNCHANGED scores
       ELSE /\ scores' = CrossValScore(Target(ml_df), Index(ml_df))
            /\ pc' = "alt_threshold"
            /\ UNCHANGED error
    /\ UNCHANGED <<df, descVars, bpiVars, ml_df, objVars, X_train, X_test, y_proba,
                   y_pred_default, y_pred_alt, scores_alt, cluVars>>

AlternativeThreshold ==
    /\ At("alt_threshold")
    /\ y_pred_alt' = [i \in X_test |-> PredictAlt(y_proba[i])]
    /\ pc' = "cross_val_alt"
    /\ UNCHANGED <<error, df, descVars, bpiVars, ml_df, objVars, X_train, X_test,
                   y_proba, y_pred_default, scores, scores_alt, cluVars>>

CrossValAlt ==
    /\ At("cross_val_alt")
    /\ IF CrossValFails(Target(ml_df), Index(ml_df))
       THEN Raise("ValueError") /\ UNCHANGED scores_alt
       ELSE /\ scores_alt' = CrossValScore(Target(ml_df), Index(ml_df))
            /\ pc' = "cluster"
            /\ UNCHANGED error
    /\ UNCHANGED <<df, descVars, bpiVars, ml_df, objVars, X_train, X_test, y_proba,
                   y_pred_default, y_pred_alt, scores, cluVars>>

\* ------------------------------------------------- 3.2 k-means clustering
\* the two groups k-means finds: the rows are split by one categorical
\* covariate, and either group may get the index 0
ClusterFeatures == {"D_GENDER_DESC", "ICD_TN"}
Labelings(frame) ==
    {[i \in Index(frame) |->
        IF frame[i][col] = frame[CHOOSE j \in Index(frame) : TRUE][col] THEN z ELSE 1 - z] :
     col \in ClusterFeatures, z \in {0, 1}}

\* lambda x: 'A' if x == 0 else 'B'
ClusterName(x) == IF x = 0 THEN "A" ELSE "B"

\* the cell constructs the clustering pipeline, fits it on ml_df and names
\* the clusters
ClusterFit ==
    /\ At("cluster")
    /\ preprocessor' = CT2
    /\ IF Cardinality(Index(ml_df)) < NClusters
       THEN /\ Raise("ValueError")
            /\ estimators' = estimators @@ (CT2 :> Unfitted) @@ (KMEANS1 :> Unfitted)
            /\ UNCHANGED ml_df
       ELSE /\ \E labels \in Labelings(ml_df) :
                  /\ estimators' =
                         (CT2 :> FitObject(Unfitted, Index(ml_df), 0, <<>>)) @@
                         (KMEANS1 :> FitObject(Unfitted, Index(ml_df), 0, labels)) @@
                         estimators
                  /\ ml_df' = [i \in Index(ml_df) |->
                                  ml_df[i] @@ [Cluster |-> ClusterName(labels[i])]]
            /\ pc' = "transform"
            /\ UNCHANGED error
    /\ UNCHANGED <<df, descVars, bpiVars, clsVars, cluVars>>

\* X_transformed = preprocessor.fit_transform(ml_df), and the PCA of it
Transform ==
    /\ At("transform")
    /\ estimators' =
           [estimators EXCEPT ![preprocessor] = FitObject(@, Index(ml_df), 0, <<>>)]
           @@ (PCA1 :> FitObject(Unfitted, Index(ml_df), 0, <<>>))
    /\ X_transformed' = Index(ml_df)
    /\ pc' = "sweep"
    /\ UNCHANGED <<error, df, descVars, bpiVars, ml_df, preprocessor, clsVars,
                   k, silhouette_scores>>

\* range(2, 11)
SweepFirst == 2
SweepLast == 10

\* KMeans(n_clusters=j).fit raises on fewer than j rows
SweepFails(n, j) == n < j

\* silhouette_score raises when every row is a cluster of its own: j clusters
\* of j rows that are all different (the rows differ or not by AGE)
SilhouetteMayFail(n, j) == n = j

\* the values of k at which the loop can end: the first k that raises, or
\* SweepLast + 1 when no k raises
SweepStops(n) ==
    LET range == SweepFirst..SweepLast
        certain == {j \in range : SweepFails(n, j)}
        first == IF certain = {} THEN SweepLast + 1
                 ELSE CHOOSE j \in certain : \A i \in certain : j <= i
    IN  {first} \cup {j \in range : SilhouetteMayFail(n, j)}

\* the scores of a loop over range(1, stop - 1)
ScoresFromOne(stop) == [j \in 1..(stop - SweepFirst) |-> [n_clusters |-> j]]

\* silhouette_scores when the loop ends at k = stop: a score for every k
\* before it, in the order of the loop
SweepScores(stop) == [j \in 1..(stop - SweepFirst) |-> [n_clusters |-> j + SweepFirst - 1]]

\* the loop of the silhouette sweep: for every k in turn a new KMeans is
\* fitted on X_transformed and its score appended; the first k that fails ends
\* the run
Sweep ==
    /\ At("sweep")
    /\ \E stop \in SweepStops(Cardinality(X_transformed)) :
           /\ silhouette_scores' = SweepScores(stop)
           /\ IF stop > SweepLast
              THEN k' = SweepLast /\ pc' = "done" /\ UNCHANGED error
              ELSE k' = stop /\ Raise("ValueError")
    /\ UNCHANGED <<df, descVars, bpiVars, ml_df, objVars, clsVars, X_transformed>>

Init ==
    /\ pc = "clean"
    /\ error = "none"
    /\ df \in Datasets
    /\ n_entries = 0
    /\ n_patients = 0
    /\ n_female = 0
    /\ dx_counts = <<>>
    /\ female_proportion = <<0, 1>>
    /\ csrss_props = <<>>
    /\ csrss_counts_gender = <<>>
    /\ csrss_counts_tn = <<>>
    /\ amb_df = <<>>
    /\ amb_df_missing = {}
    /\ amb_total_scores = <<>>
    /\ amb_painintensity_df = <<>>
    /\ amb_interference_df = <<>>
    /\ amb_specific_df = <<>>
    /\ is_sui = <<>>
    /\ is_tn = <<>>
    /\ bpi_groups = <<>>
    /\ bpi_tests = <<>>
    /\ ml_df = <<>>
    /\ estimators = <<>>
    /\ preprocessor = None
    /\ X_train = {}
    /\ X_test = {}
    /\ y_proba = <<>>
    /\ y_pred_default = <<>>
    /\ y_pred_alt = <<>>
    /\ scores = <<>>
    /\ scores_alt = <<>>
    /\ X_transformed = {}
    /\ k = 0
    /\ silhouette_scores = <<>>

Next ==
    \/ CleanData
    \/ RestructureCSRSS
    \/ Demographics
    \/ CsrssResponses
    \/ ChiSquare
    \/ CohortFilter
    \/ ReportDomains
    \/ SplitByCSRSS
    \/ MlFrame
    \/ TrainTestSplit
    \/ Fit
    \/ Predict
    \/ CrossVal
    \/ AlternativeThreshold
    \/ CrossValAlt
    \/ ClusterFit
    \/ Transform
    \/ Sweep

Spec == Init /\ [][Next]_vars

\* ------------------------------------------------------------- properties
Categories == {"TN", "AFP", "HFS", "MS", "Posttraumatic", "PHTN", "Other"}

\* C1: after the derivation every row's CSRSS_Either is 0 or 1, never NaN, and
\* it is 1 exactly when CSRSS_Thoughts is 1 or CSRSS_Behaviors is 1, a NaN flag
\* counting as 0: one flag 1 and the other NaN gives 1, both NaN give 0
C1_EitherZeroFill ==
    After("either") =>
        \A i \in Index(df) :
            /\ df[i].CSRSS_Either \in {0, 1}
            /\ df[i].CSRSS_Either = 1 <=>
                   (df[i].CSRSS_Thoughts = 1 \/ df[i].CSRSS_Behaviors = 1)
            /\ (df[i].CSRSS_Thoughts = NaN /\ df[i].CSRSS_Behaviors = NaN)
                   => df[i].CSRSS_Either = 0

\* a derived row with one flag 1 and the other NaN, classified 1
C1_Witness ==
    /\ After("either")
    /\ \E i \in Index(df) :
           /\ df[i].CSRSS_Thoughts = 1
           /\ df[i].CSRSS_Behaviors = NaN
           /\ df[i].CSRSS_Either = 1

\* a row whose diagnosis text the table does not list
Unlisted(r) == r.D_ICD_DESC \notin (DOMAIN ICD_map) \cup {None}

\* C2: a data set with a diagnosis text that the mapping table does not list
\* ends the run in the derivation step with a DataQualityError: the run never
\* goes on to a later step with such a row
C2_UnlistedRaises ==
    (\E i \in Index(df) : Unlisted(df[i])) =>
        /\ pc = "clean"
        /\ error \in {"none", "DataQualityError"}

\* the TN entry of the diagnosis frequency table, 0 when there is none
TNEntry == IF "TN" \in DOMAIN dx_counts THEN dx_counts["TN"] ELSE 0

\* C3: a row whose diagnosis text is listed gets the table's category, one of
\* the seven; ICD_TN is 1 exactly when the category is TN; and the rows with
\* ICD_TN = 1 are as many as the TN entry of dx_counts
C3_DiagnosisMapping ==
    /\ After("clean") =>
           \A i \in Index(df) :
               /\ df[i].D_ICD_DESC \in DOMAIN ICD_map =>
                      /\ df[i].ICD_Clean = ICD_map[df[i].D_ICD_DESC]
                      /\ df[i].ICD_Clean \in Categories
               /\ df[i].ICD_TN \in {0, 1}
               /\ df[i].ICD_TN = 1 <=> df[i].ICD_Clean = "TN"
    /\ After("demographics") =>
           Cardinality({i \in Index(df) : df[i].ICD_TN = 1}) = TNEntry

\* 15 rows of trigeminal neuralgia and 5 of atypical facial pain: ICD_TN is 1
\* for 15 rows and the table is {TN: 15, AFP: 5}
C3_Witness ==
    /\ After("demographics")
    /\ Cardinality(Index(df)) = 20
    /\ Cardinality({i \in Index(df) : df[i].ICD_TN = 1}) = 15
    /\ dx_counts = ("TN" :> 15) @@ ("AFP" :> 5)

\* every questionnaire column of the row holds a value
Complete(r) == \A c \in amb_any : r.amb[c] # NaN

\* C4: after the filter the index of amb_df and amb_df_missing are disjoint
\* and together are the index of df; amb_df holds exactly the rows with every
\* questionnaire column present, unchanged, and amb_df_missing the labels of
\* the rows with a column missing
C4_FilterPartitions ==
    After("bpi") =>
        /\ Index(amb_df) \cap amb_df_missing = {}
        /\ Index(amb_df) \cup amb_df_missing = Index(df)
        /\ \A i \in Index(df) :
               /\ i \in Index(amb_df) <=> Complete(df[i])
               /\ i \in amb_df_missing <=> ~Complete(df[i])
               /\ i \in Index(amb_df) => amb_df[i] = df[i].amb

\* two rows that differ only in that the second lacks the first pain-intensity
\* item: the first is in the cohort, the second is the only excluded row
C4_Witness ==
    /\ After("bpi")
    /\ \E i \in Index(amb_df), j \in Index(df) :
           /\ amb_df_missing = {j}
           /\ df[j].amb = [df[i].amb EXCEPT ![1] = NaN]
           /\ [df[j] EXCEPT !.amb = df[i].amb] = df[i]

\* C5: the filter applied to the filtered frame amb_df finds no row to
\* exclude and returns amb_df unchanged
C5_FilterIdempotent ==
    After("bpi") =>
        /\ AmbMissing(amb_df) = {}
        /\ Drop(amb_df, AmbMissing(amb_df)) = amb_df

\* a filter that excluded a row and kept a row
C5_Witness ==
    /\ After("bpi")
    /\ amb_df_missing # {}
    /\ Index(amb_df) # {}
    /\ Drop(amb_df, AmbMissing(amb_df)) = amb_df

\* the three domains: their columns and their Series of scores
DomainScores ==
    <<[cols |-> amb_painintensity, score |-> amb_painintensity_df],
      [cols |-> amb_interference, score |-> amb_interference_df],
      [cols |-> amb_specific, score |-> amb_specific_df]>>

\* the score of a row of df in a domain, NaN for a row that has none
ScoreOf(d, i) == IF i \in Index(d.score) THEN d.score[i] ELSE NaNMean

\* the pair m is the mean of all columns cols of the row
IsMeanOfItems(m, answers, cols) ==
    /\ m # NaNMean
    /\ m[2] = Cardinality(cols)
    /\ m[1] = SumCols(answers, cols)

\* C6 as stated: for every row of df and every domain the score is NaN
\* exactly when an item of the domain is missing in the row, and is the mean
\* of the items otherwise
C6_ScoreOfEveryRow ==
    After("bpi") =>
        \A q \in DOMAIN DomainScores : \A i \in Index(df) :
            LET d == DomainScores[q]
            IN  /\ ScoreOf(d, i) = NaNMean <=> (\E c \in d.cols : df[i].amb[c] = NaN)
                /\ ScoreOf(d, i) # NaNMean => IsMeanOfItems(ScoreOf(d, i), df[i].amb, d.cols)

\* C6: the scores of a domain are a Series over the rows of the cohort; the
\* score of a cohort row is not NaN and is the mean of all items of the
\* domain; a row the filter excluded has no score
C6_ScoreOfCohortRows ==
    After("bpi") =>
        \A q \in DOMAIN DomainScores :
            LET d == DomainScores[q]
            IN  /\ Index(d.score) = Index(amb_df)
                /\ Index(d.score) \cap amb_df_missing = {}
                /\ \A i \in Index(amb_df) : IsMeanOfItems(d.score[i], df[i].amb, d.cols)

\* a cohort row with its pain-intensity mean, and a row that has every
\* pain-intensity item and was excluded, so has no score
C6_Witness ==
    /\ After("bpi")
    /\ \E i \in Index(amb_df) :
           IsMeanOfItems(amb_painintensity_df[i], df[i].amb, amb_painintensity)
    /\ \E j \in amb_df_missing :
           /\ \A c \in amb_painintensity : df[j].amb[c] # NaN
           /\ j \notin Index(amb_painintensity_df)

\* the rows a 2 x 2 table counts
TableTotal(t) == t[1][1] + t[1][2] + t[2][1] + t[2][2]

\* C7: every reported figure and every model is computed over the rows of the
\* cohort: the population count, the frequency table, the proportion of the
\* screening flag, both chi-square tables, the subgroups of the tests, the
\* frame of the classifier and of the clustering
C7_SameRowSet ==
    LET n == Cardinality(Index(amb_df))
    IN  /\ After("bpi") =>
               /\ n_entries = n
               /\ csrss_props.Either[2] = n
               /\ TableTotal(csrss_counts_gender) = n
               /\ TableTotal(csrss_counts_tn) = n
               /\ \A v \in DOMAIN dx_counts : dx_counts[v] <= n
               /\ Len(is_sui) = n
        /\ After("ml_df") => Index(ml_df) = Index(amb_df)
        /\ After("train_test_split") => X_train \cup X_test = Index(amb_df)
        /\ After("cluster") => estimators[KMEANS1].rows = Index(amb_df)

\* the estimators of the classification pipeline
PipelineObjects == {pipeline.preprocess, pipeline.smote, pipeline.logreg}

\* a cross-validation: CvFolds folds, each with a clone that was fitted at
\* most once, on the training rows of the fold and on no test row of it, and
\* scored on test rows of the fold only
FoldsAreClean(folds) ==
    /\ Len(folds) = CvFolds
    /\ \A f \in DOMAIN folds :
           /\ folds[f].train \cap folds[f].test = {}
           /\ folds[f].train \cup folds[f].test = Index(ml_df)
           /\ folds[f].scored \subseteq folds[f].test
           /\ \A o \in PipelineObjects :
                  /\ folds[f].clone[o].n_fit <= 1
                  /\ folds[f].clone[o].n_fit = 1 => folds[f].clone[o].rows = folds[f].train
                  /\ folds[f].clone[o].rows \cap folds[f].test = {}
    /\ \A f, g \in DOMAIN folds : f # g => folds[f].test \cap folds[g].test = {}

\* C8: the transformer, the oversampler and the model of the pipeline are
\* fitted on the rows of X_train and on no row of X_test; the predictions are
\* made for the rows of X_test, which are rows of the frame; and every fold of
\* both cross-validations fits a fresh clone on its own training rows
C8_NoLeakage ==
    /\ After("train_test_split") => X_train \cap X_test = {}
    /\ After("fit") =>
           \A o \in PipelineObjects :
               /\ estimators[o].rows = X_train
               /\ estimators[o].rows \cap X_test = {}
    /\ After("predict") =>
           /\ Index(y_proba) = X_test
           /\ Index(y_pred_default) = X_test
           /\ X_test \subseteq Index(ml_df)
    /\ After("cross_val") => FoldsAreClean(scores)
    /\ After("cross_val_alt") => FoldsAreClean(scores_alt)

\* a fitted pipeline whose oversampler made synthetic examples, a test split,
\* and a cross-validation in which every fold fitted its clone
C8_Witness ==
    /\ After("cross_val")
    /\ X_test # {}
    /\ estimators[pipeline.logreg].synthetic > 0
    /\ \A f \in DOMAIN scores : scores[f].clone[pipeline.logreg].n_fit = 1
    /\ \E f \in DOMAIN scores : scores[f].clone[pipeline.logreg].synthetic > 0

\* the rows of a prediction that are predicted positive
Positives(pred) == {i \in Index(pred) : pred[i] = 1}

\* C9: every row of the test split that predict labels 1 is labelled 1 at the
\* threshold 0.3 as well, so the threshold 0.3 gives at least as many
\* positive predictions
C9_LowerThresholdMonotone ==
    After("alt_threshold") =>
        /\ Index(y_pred_alt) = Index(y_pred_default)
        /\ Positives(y_pred_default) \subseteq Positives(y_pred_alt)
        /\ Cardinality(Positives(y_pred_default)) <= Cardinality(Positives(y_pred_alt))

\* a test split with a row positive at both thresholds and a row positive at
\* the threshold 0.3 only
C9_Witness ==
    /\ After("alt_threshold")
    /\ Positives(y_pred_default) # {}
    /\ Positives(y_pred_alt) \ Positives(y_pred_default) # {}

\* C10: every estimator object of the two pipelines is fitted by one fit
\* operation and never fitted again
C10_FittedOnce ==
    \A o \in DOMAIN estimators : estimators[o].n_fit <= 1

\* the labels k-means would report with the two cluster indices exchanged
SwappedLabels == [i \in Index(ml_df) |-> 1 - estimators[KMEANS1].params[i]]

\* C11: the name a row's cluster gets does not depend on which of the two
\* indices k-means gives the cluster: with the indices 0 and 1 exchanged every
\* row has the same name, A or B, as it has now
C11_LabelsIndependentOfIndex ==
    After("cluster") =>
        \A i \in Index(ml_df) : ml_df[i].Cluster = ClusterName(SwappedLabels[i])

\* the data set has a sex or a diagnosis group without a row for one of the
\* two values of CSRSS_Either
EmptyCell ==
    \/ \E g \in Genders, v \in {0, 1} : GroupCount(df, "D_GENDER_DESC", g, v) = 0
    \/ \E t \in {0, 1}, v \in {0, 1} : GroupCount(df, "ICD_TN", t, v) = 0

\* C12: no statistical test raises: neither the cell of the two chi-square
\* tests nor the cell of the Levene and Welch tests ends the run, also when a
\* subgroup or a cell of a table is empty
C12_TestsNeverRaise ==
    /\ pc = "chi2" => error = "none"
    /\ pc = "split" => error = "none"
    /\ (After("either") /\ EmptyCell) => error = "none"

\* the loop of the sweep has ended, with its last k or with an exception
SweepEnded == pc = "done" \/ (pc = "sweep" /\ error # "none")

\* the reported clustering: KMeans fitted once, with two cluster indices, and
\* the names of ml_df['Cluster'] made from its labels
PrimaryClusteringKept ==
    /\ estimators[KMEANS1].n_fit = 1
    /\ \A i \in Index(ml_df) :
           /\ estimators[KMEANS1].params[i] \in 0..(NClusters - 1)
           /\ ml_df[i].Cluster = ClusterName(estimators[KMEANS1].params[i])

C14_FemaleProportionOverRows ==
    After("demographics") =>
        /\ n_entries = Cardinality(Index(df))
        /\ n_female = Cardinality({i \in Index(df) : df[i].D_GENDER_DESC = "Female"})
        /\ n_patients = Cardinality({df[i].PAT_ID : i \in Index(df)})
        /\ female_proportion[1] * n_entries = n_female * female_proportion[2]
        /\ female_proportion[1] <= female_proportion[2]

\* the contingency table of a grouping with CSRSS_Either, the counts of the
\* value v0 in the first column and of v1 in the second
Crosstab(frame, by, keys, v0, v1) ==
    <<<<GroupCount(frame, by, keys[1], v0), GroupCount(frame, by, keys[1], v1)>>,
      <<GroupCount(frame, by, keys[2], v0), GroupCount(frame, by, keys[2], v1)>>>>

\* the table is a contingency table: one value of CSRSS_Either per column
IsCrosstab(t, by, keys) ==
    t \in {Crosstab(df, by, keys, 0, 1), Crosstab(df, by, keys, 1, 0)}

\* C15: the two tables handed to chi2_contingency are contingency tables: in
\* both rows of a table the same column counts the same value of CSRSS_Either,
\* whichever value is the more frequent one in a group
C15_TrueContingencyTable ==
    After("chi2") =>
        /\ IsCrosstab(csrss_counts_gender, "D_GENDER_DESC", <<"Female", "Male">>)
        /\ IsCrosstab(csrss_counts_tn, "ICD_TN", <<0, 1>>)

\* the number x is the mean m, a pair <<sum, count>>
EqualsMean(x, m) == m # NaNMean /\ x * m[2] = m[1]

\* C16: the three pain covariates of a row of ml_df are the row's domain
\* scores, the means of the items, that the descriptive cells use
C16_CovariatesAreDomainScores ==
    After("ml_df") =>
        /\ Index(ml_df) = Index(amb_df)
        /\ \A i \in Index(ml_df) :
               /\ EqualsMean(ml_df[i].Pain_Intensity, amb_painintensity_df[i])
               /\ EqualsMean(ml_df[i].Interference_General, amb_interference_df[i])
               /\ EqualsMean(ml_df[i].Interference_Face, amb_specific_df[i])

RECURSIVE Gcd(_, _)
Gcd(a, b) == IF b = 0 THEN a ELSE Gcd(b, a % b)

\* the sums s[1] + ... + s[n] and s[1]^2 + ... + s[n]^2 of the numerators of a
\* sample of means over the same number of items
RECURSIVE SumOf(_, _)
SumOf(s, q) == IF q = 0 THEN 0 ELSE s[q][1] + SumOf(s, q - 1)
RECURSIVE SumSqOf(_, _)
SumSqOf(s, q) == IF q = 0 THEN 0 ELSE s[q][1] * s[q][1] + SumSqOf(s, q - 1)

\* n * sum(x^2) - sum(x)^2 of a sample: n * (n - 1) times its variance
Spread(s) == Len(s) * SumSqOf(s, Len(s)) - SumOf(s, Len(s)) * SumOf(s, Len(s))

\* the Welch-Satterthwaite degrees of freedom of two samples as <<num, den>>:
\* (v1/n1 + v2/n2)^2 / ((v1/n1)^2/(n1 - 1) + (v2/n2)^2/(n2 - 1)), with the two
\* terms v/n brought to a common denominator and reduced; <<0, 0>> when a
\* sample has fewer than 2 values or neither sample has a variance
WelchDof(a, b) ==
    LET n1 == Len(a)
        n2 == Len(b)
    IN  IF n1 < 2 \/ n2 < 2 THEN <<0, 0>>
        ELSE LET t1 == Spread(a) * n2 * n2 * (n2 - 1)
                 t2 == Spread(b) * n1 * n1 * (n1 - 1)
                 g == Gcd(t1, t2)
             IN  IF g = 0 THEN <<0, 0>>
                 ELSE LET p == t1 \div g
                          r == t2 \div g
                      IN  <<(p + r) * (p + r) * (n1 - 1) * (n2 - 1),
                            p * p * (n2 - 1) + r * r * (n1 - 1)>>

\* the whole number x is the fraction w rounded, as '%.0f' prints it
IsRounded(x, w) ==
    /\ w[2] > 0
    /\ (2 * x - 1) * w[2] <= 2 * w[1]
    /\ 2 * w[1] <= (2 * x + 1) * w[2]

\* C17: the degrees of freedom printed with the t statistic of a domain are
\* the Welch-Satterthwaite degrees of freedom of its two subgroups
C17_WelchDegreesOfFreedom ==
    After("split") =>
        \A d \in DOMAIN bpi_tests :
            IsRounded(bpi_tests[d].dof, WelchDof(bpi_groups[d].sui, bpi_groups[d].notsui))

\* the names of the three domains in bpi_groups, in the order of DomainScores
DomainNames == <<"painintensity", "interference", "specific">>

\* the rows of the cohort with the value v of CSRSS_Either
CohortRows(v) == {i \in Index(amb_df) : df[i].CSRSS_Either = v}

\* C18: after the filter is_sui has one entry for every row of the cohort, in
\* the order of the rows, and so has every Series of domain scores; dropna
\* removes no score; and the two subgroups of a domain are the scores of the
\* cohort rows with CSRSS_Either = 1 and of those with CSRSS_Either = 0, so
\* every row's score is in the subgroup of its own flag and the sizes of the
\* two subgroups add up to the size of the cohort
C18_MaskAligned ==
    LET ix == SortedSeq(Index(amb_df))
    IN  /\ After("bpi") =>
               /\ Len(is_sui) = Len(ix)
               /\ \A q \in DOMAIN ix : is_sui[q] = df[ix[q]].CSRSS_Either
               /\ \A q \in DOMAIN DomainScores : Index(DomainScores[q].score) = Index(amb_df)
        /\ After("split") =>
               \A q \in DOMAIN DomainScores :
                   LET score == DomainScores[q].score
                       g == bpi_groups[DomainNames[q]]
                   IN  /\ g.sui = Values([i \in CohortRows(1) |-> score[i]])
                       /\ g.notsui = Values([i \in CohortRows(0) |-> score[i]])
                       /\ Len(g.sui) + Len(g.notsui) = Cardinality(Index(amb_df))

\* a cohort that lost a row to the filter, split into two subgroups of
\* different sizes
C18_Witness ==
    /\ After("split")
    /\ amb_df_missing # {}
    /\ Len(bpi_groups.painintensity.sui) > 0
    /\ Len(bpi_groups.painintensity.notsui) > Len(bpi_groups.painintensity.sui)
    /\ Len(is_sui) < Cardinality(Index(df))
====
